---- MODULE Spec2Model ----
(***************************************************************************)
(* TransSRT: chunking of subtitle entries (backend/chunker.py) and the     *)
(* concurrent translation of the chunks (backend/translator.py).           *)
(*                                                                         *)
(* Text is modelled as a sequence of one-character strings, so that the    *)
(* prompt numbering and the parsing of the engine's reply are computed.    *)
(***************************************************************************)
EXTENDS Integers, Sequences, FiniteSets, TLC

VARIABLES
    entries,        \* the parsed subtitle entries of the job (List[SRTEntry])
    chunk_size,     \* SubtitleChunker.chunk_size
    context_size,   \* SubtitleChunker.context_size
    max_concurrent, \* GeminiTranslator.max_concurrent
    stage,          \* position of the job: "parsed", "chunked", "translating", "translated",
                    \* "done", "error"
    chunks,         \* result of create_chunks (List[Chunk])
    semaphore,      \* value of GeminiTranslator.semaphore (free permits)
    state,          \* state[i]: position of chunk task i in _translate_chunk_with_retry
    attempt_count,  \* attempt_count[i]: tenacity's attempt number of task i
    reply,          \* reply[i]: outcome of the remote call of task i's current attempt
    calls,          \* calls[i]: number of remote calls task i has issued
    results,        \* the list asyncio.gather collects, one slot per task
    out_of_order,   \* TRUE once a task has ended before a task of a lower position
    faults,         \* number of remote calls of the job that failed so far
    ret,            \* outcome of translate_chunks_async
    delay,          \* delay[i]: the backoff delay task i is sleeping, in seconds, 0 when none
    translated_entries, \* the reassembled entries of process_translation
    service_error,  \* the TranslationServiceError process_translation raised
    arg_response_text,  \* _parse_response alone: its response_text
    arg_expected_count, \* _parse_response alone: its expected_count
    parse_result,   \* _parse_response alone: what it returned or raised
    semaphores,     \* concurrent jobs: semaphores[p] is the value of semaphore object p
    instance_tasks  \* concurrent jobs: instance_tasks[j][i] is the state of task i of the
                    \* translator instance of job j, <<>> before the instance exists

\* the state of a call of _parse_response on its own
parserVars == <<arg_response_text, arg_expected_count, parse_result>>

\* the translator instances of concurrent jobs
instanceVars == <<semaphores, instance_tasks>>

\* the outcome of process_translation
jobVars == <<translated_entries, service_error>>

vars == <<entries, chunk_size, context_size, max_concurrent, stage, chunks,
          semaphore, state, attempt_count, reply, calls, results, out_of_order, faults, ret,
          delay, translated_entries, service_error,
          arg_response_text, arg_expected_count, parse_result,
          semaphores, instance_tasks>>

(***************************************************************************)
(* Bounds of the model.                                                    *)
(***************************************************************************)
\* chunker alone: entries per input sequence
MaxEntries == 6
\* chunker alone: chunk_size
MaxChunkSize == 4
\* chunker alone: context_size
MaxContextSize == 4
\* translation job: entries of the job
MaxJobEntries == 3
\* translation job: CHUNK_SIZE
MaxJobChunkSize == 2
\* translation job: MAX_CONCURRENT
MaxPermits == 2
\* translation job: remote calls that fail (raise or return an unusable text)
MaxFaults == 3
\* the job under fair scheduling: chunks of the job
MaxFairChunks == 2
\* concurrent jobs: jobs running at the same time
MaxConcurrentJobs == 2
\* concurrent jobs: chunks of one job
MaxInstanceChunks == 2
\* _parse_response alone: lines of the reply text
MaxReplyLines == 3
\* _parse_response alone: the expected_count of a reply that can be complete
MaxSmallExpectedCount == 3
\* _parse_response alone: the expected_count of a reply that misses more than ten numbers
MaxExpectedCount == 11

(***************************************************************************)
(* Program constants.                                                      *)
(***************************************************************************)
\* stop_after_attempt(3)
MaxAttempts == 3
\* SubtitleChunker(context_size=3)
DefaultContextSize == 3
\* chunk.previous_context[-3:]
PromptContextEntries == 3
\* missing[:10]
MissingShown == 10
\* wait_exponential(multiplier=1, ...)
WaitMultiplier == 1
\* wait_exponential(..., min=2, ...)
WaitMin == 2
\* wait_exponential(..., max=10)
WaitMax == 10

(***************************************************************************)
(* Sequences and text.                                                     *)
(***************************************************************************)
Min(a, b) == IF a <= b THEN a ELSE b
Max(a, b) == IF a >= b THEN a ELSE b

\* Python slice s[lo:hi] with 0-based bounds 0 <= lo, clipped at len(s)
Slice(s, lo, hi) == SubSeq(s, lo + 1, Min(hi, Len(s)))

Digits == <<"0", "1", "2", "3", "4", "5", "6", "7", "8", "9">>

RECURSIVE Str(_)
\* str(n) of a natural number
Str(n) == IF n < 10 THEN <<Digits[n + 1]>>
          ELSE Str(n \div 10) \o <<Digits[(n % 10) + 1]>>

\* SRTEntry(number, timestamp, text) of the k-th subtitle of the file
Entry(k) == [number |-> Str(k), timestamp |-> <<"T">> \o Str(k), text |-> <<"k">> \o Str(k)]

MakeEntries(n) == [k \in 1..n |-> Entry(k)]

(***************************************************************************)
(* chunker.py                                                              *)
(***************************************************************************)
\* (len(entries) + chunk_size - 1) // chunk_size
\* variant: the count is rounded down
TotalChunksFloor(es, cs) == Len(es) \div cs

\* total_chunks = (len(entries) + chunk_size - 1) // chunk_size
TotalChunks(es, cs) == (Len(es) + cs - 1) \div cs

RECURSIVE RangeFrom(_, _, _)
\* range(start, stop, step) as a sequence, step >= 1
RangeFrom(start, stop, step) ==
    IF start >= stop THEN <<>>
    ELSE <<start>> \o RangeFrom(start + step, stop, step)

\* entries[context_start:i] for i > 0, [] for the first chunk
PreviousContext(es, i, ctx) ==
    IF i > 0 THEN Slice(es, Max(0, i - ctx), i) ELSE <<>>

\* variant: each chunk starts one entry early, overlapping its predecessor
ChunkEntriesOverlapping(es, i, cs) == Slice(es, Max(0, i - 1), i + cs)

\* entries[i:i + chunk_size]
ChunkEntries(es, i, cs) == Slice(es, i, i + cs)

\* the Chunk built by one iteration of the loop, at offset i
MakeChunk(es, i, cs, ctx) ==
    [entries |-> ChunkEntries(es, i, cs),
     index |-> (i \div cs) + 1,
     total |-> TotalChunks(es, cs),
     previous_context |-> PreviousContext(es, i, ctx)]

\* variant: the empty list is not refused
IsEmptyInputNever(es) == FALSE

\* `if not entries`: create_chunks raises ValueError
IsEmptyInput(es) == es = <<>>

\* SubtitleChunker.create_chunks for a non-empty list: one chunk per offset
CreateChunks(es, cs, ctx) ==
    LET offsets == RangeFrom(0, Len(es), cs)
    IN  [c \in 1..Len(offsets) |-> MakeChunk(es, offsets[c], cs, ctx)]

(***************************************************************************)
(* translator.py: prompt, remote engine, response parsing                  *)
(***************************************************************************)
Newline == "\n"
Whitespace == {" ", Newline}
DigitSet == {Digits[d] : d \in 1..10}

\* variant: the line carries the entry's own number
PromptLineEntryNumber(i, entry) == entry.number \o <<".", " ">> \o entry.text

\* the numbered line "{i}. {entry.text}" of the prompt
PromptLine(i, entry) == Str(i) \o <<".", " ">> \o entry.text

\* GeminiTranslator._create_prompt: the parts of the prompt that depend on the chunk
CreatePrompt(chunk) ==
    [context |-> LET pc == chunk.previous_context
                     ctx == SubSeq(pc, Max(1, Len(pc) - PromptContextEntries + 1), Len(pc))
                 IN  [k \in 1..Len(ctx) |-> ctx[k].text],
     index |-> chunk.index,
     total |-> chunk.total,
     count |-> Len(chunk.entries),
     lines |-> [i \in 1..Len(chunk.entries) |-> PromptLine(i, chunk.entries[i])]]

RECURSIVE JoinLines(_)
\* "\n".join(lines)
JoinLines(lines) ==
    IF lines = <<>> THEN <<>>
    ELSE IF Len(lines) = 1 THEN lines[1]
    ELSE lines[1] \o <<Newline>> \o JoinLines(Tail(lines))

\* position of the first "." of a prompt line
DotAt(line) == CHOOSE j \in 1..Len(line) : line[j] = "." /\ \A k \in 1..(j - 1) : line[k] # "."

\* the engine's translation of one source text
EngineTranslate(text) == <<"E">> \o text

\* the engine's answer to one numbered line of the prompt: same ordinal, translated text
EngineLine(line) ==
    SubSeq(line, 1, DotAt(line)) \o <<" ">> \o EngineTranslate(SubSeq(line, DotAt(line) + 2, Len(line)))

Reverse(s) == [k \in 1..Len(s) |-> s[Len(s) + 1 - k]]

\* the engine's answer to every line of the prompt, in the prompt's order
EngineLines(prompt) == [i \in 1..prompt.count |-> EngineLine(prompt.lines[i])]

\* complete replies: every line in order, or every line in reverse order
CompleteTexts(prompt) ==
    { JoinLines(EngineLines(prompt)), JoinLines(Reverse(EngineLines(prompt))) }

\* unusable replies: the last line missing, or an empty body
IncompleteTexts(prompt) ==
    { JoinLines(SubSeq(EngineLines(prompt), 1, prompt.count - 1)), <<>> }

\* the reply texts the engine may give to a prompt
EngineTexts(prompt) == CompleteTexts(prompt) \cup IncompleteTexts(prompt)

NoReply == [kind |-> "none", text |-> <<>>, type |-> "none"]
TextReply(t) == [kind |-> "text", text |-> t, type |-> "none"]
\* the exception of a failed attempt, kept by the retry decorator during the backoff
RaisedReply(e) == [kind |-> "exc", text |-> <<>>, type |-> e]

\* what can go wrong in _call_gemini_rest: the request times out, the engine answers
\* 429 or another error status, the JSON has no candidate, no content or parts, no
\* text, or anything else is raised on the way
CallFaults ==
    {"timeout", "http_429", "http_other", "no_candidates", "invalid_structure", "no_text",
     "other_exception"}

\* variant: every error status is taken for a rate limit
RaisedByCallAnyStatusRateLimit(fault) ==
    IF fault = "timeout" THEN "TimeoutError"
    ELSE IF fault \in {"http_429", "http_other"} THEN "RateLimitError"
    ELSE "TranslationError"

\* the except clauses of _call_gemini_rest: the exception the fault leaves as
RaisedByCall(fault) ==
    IF fault = "timeout" THEN "TimeoutError"
    ELSE IF fault = "http_429" THEN "RateLimitError"
    ELSE "TranslationError"

\* exceptions _call_gemini_rest raises: 429, request timeout, anything else
CallExceptions == {RaisedByCall(fault) : fault \in CallFaults}

RECURSIVE LStrip(_)
LStrip(s) == IF s # <<>> /\ Head(s) \in Whitespace THEN LStrip(Tail(s)) ELSE s

RECURSIVE RStrip(_)
RStrip(s) == IF s # <<>> /\ s[Len(s)] \in Whitespace THEN RStrip(SubSeq(s, 1, Len(s) - 1)) ELSE s

\* str.strip()
Strip(s) == RStrip(LStrip(s))

RECURSIVE SplitLines(_, _)
\* str.split('\n'): cur is the line being read
SplitLines(s, cur) ==
    IF s = <<>> THEN <<cur>>
    ELSE IF Head(s) = Newline THEN <<cur>> \o SplitLines(Tail(s), <<>>)
    ELSE SplitLines(Tail(s), Append(cur, Head(s)))

\* [line.strip() for line in response_text.strip().split('\n') if line.strip()]
CleanLines(text) ==
    LET raw == SplitLines(Strip(text), <<>>)
        kept == SelectSeq(raw, LAMBDA l : Strip(l) # <<>>)
    IN  [k \in 1..Len(kept) |-> Strip(kept[k])]

RECURSIVE LeadingDigits(_)
\* number of digits at the start of s
LeadingDigits(s) == IF s # <<>> /\ Head(s) \in DigitSet THEN 1 + LeadingDigits(Tail(s)) ELSE 0

DigitValue(c) == (CHOOSE d \in 1..10 : Digits[d] = c) - 1

RECURSIVE ParseInt(_)
\* int(digits)
ParseInt(ds) == IF ds = <<>> THEN 0 ELSE 10 * ParseInt(SubSeq(ds, 1, Len(ds) - 1)) + DigitValue(ds[Len(ds)])

\* re.match(r'^(\d+)[\.\)]\s*(.+)$', line) on a stripped line, then int(group 1) and group(2).strip()
MatchLine(line) ==
    LET d == LeadingDigits(line)
        rest == LStrip(SubSeq(line, d + 2, Len(line)))
    IN  IF d >= 1 /\ Len(line) >= d + 1 /\ line[d + 1] \in {".", ")"} /\ rest # <<>>
        THEN [ok |-> TRUE, num |-> ParseInt(SubSeq(line, 1, d)), text |-> Strip(rest)]
        ELSE [ok |-> FALSE, num |-> 0, text |-> <<>>]

RECURSIVE ParseLinesStopAtIgnored(_, _, _)
\* variant: the loop ends at the first line it would ignore
ParseLinesStopAtIgnored(lines, expected_count, translations) ==
    IF lines = <<>> THEN translations
    ELSE LET m == MatchLine(Head(lines))
         IN  IF m.ok /\ 1 <= m.num /\ m.num <= expected_count
             THEN ParseLinesStopAtIgnored(Tail(lines), expected_count,
                                          (m.num :> m.text) @@ translations)
             ELSE translations

RECURSIVE ParseLinesFirstWins(_, _, _)
\* variant: a number that already has a text keeps it
ParseLinesFirstWins(lines, expected_count, translations) ==
    IF lines = <<>> THEN translations
    ELSE LET m == MatchLine(Head(lines))
         IN  ParseLinesFirstWins(Tail(lines), expected_count,
                 IF m.ok /\ 1 <= m.num /\ m.num <= expected_count
                 THEN translations @@ (m.num :> m.text)
                 ELSE translations)

RECURSIVE ParseLinesWithContinuation(_, _, _)
\* variant: a line without number that follows a numbered line is added to its text
ParseLinesWithContinuation(lines, expected_count, translations) ==
    IF lines = <<>> THEN translations
    ELSE LET m == MatchLine(Head(lines))
             continued == Len(lines) >= 2 /\ ~ MatchLine(lines[2]).ok
         IN  IF m.ok /\ 1 <= m.num /\ m.num <= expected_count
             THEN IF continued
                  THEN ParseLinesWithContinuation(Tail(Tail(lines)), expected_count,
                           (m.num :> (m.text \o <<Newline>> \o lines[2])) @@ translations)
                  ELSE ParseLinesWithContinuation(Tail(lines), expected_count,
                           (m.num :> m.text) @@ translations)
             ELSE ParseLinesWithContinuation(Tail(lines), expected_count, translations)

RECURSIVE ParseLines(_, _, _)
\* the loop that fills the translations dict: a later line replaces an earlier one
ParseLines(lines, expected_count, translations) ==
    IF lines = <<>> THEN translations
    ELSE LET m == MatchLine(Head(lines))
         IN  ParseLines(Tail(lines), expected_count,
                 IF m.ok /\ 1 <= m.num /\ m.num <= expected_count
                 THEN (m.num :> m.text) @@ translations
                 ELSE translations)

EmptyDict == [k \in {} |-> <<>>]

\* variant: every missing number is listed
MissingNumbersAll(translations, expected_count) ==
    SelectSeq([k \in 1..expected_count |-> k], LAMBDA k : k \notin DOMAIN translations)

\* missing[:10] of the error message: the numbers of 1..expected_count without a
\* translation, ascending, the first ten of them
MissingNumbers(translations, expected_count) ==
    LET missing == SelectSeq([k \in 1..expected_count |-> k],
                             LAMBDA k : k \notin DOMAIN translations)
    IN  SubSeq(missing, 1, Min(MissingShown, Len(missing)))

\* variant: the list runs from the last number down to 1
OrderedTranslationsDescending(translations, expected_count) ==
    [k \in 1..expected_count |-> translations[expected_count + 1 - k]]

\* [translations[i] for i in range(1, expected_count + 1)]
OrderedTranslations(translations, expected_count) ==
    [k \in 1..expected_count |-> translations[k]]

\* GeminiTranslator._parse_response: the ordered list, or the TranslationError
ParseResponse(response_text, expected_count) ==
    LET translations == ParseLines(CleanLines(response_text), expected_count, EmptyDict)
    IN  IF Cardinality(DOMAIN translations) # expected_count
        THEN [ok |-> FALSE, translations |-> <<>>,
              missing |-> MissingNumbers(translations, expected_count)]
        ELSE [ok |-> TRUE, translations |-> OrderedTranslations(translations, expected_count),
              missing |-> <<>>]

(***************************************************************************)
(* translator.py: one attempt, the retry policy, the batch                 *)
(***************************************************************************)
Tasks == 1..Len(chunks)

Terminal == {"Success", "Failed"}

\* the task is inside `async with self.semaphore`
HoldsPermit(st) == st \in {"Prompt", "InFlight", "Parse"}

NoResult == [kind |-> "none", translations |-> <<>>, type |-> "none", cause |-> "none"]
Returned(ts) == [kind |-> "ok", translations |-> ts, type |-> "none", cause |-> "none"]
Raised(t, c) == [kind |-> "exc", translations |-> <<>>, type |-> t, cause |-> c]

\* variant: acquire also proceeds when the value is zero
CanAcquireAtZero(value) == value >= 0

\* asyncio.Semaphore: acquire proceeds only when the value is positive
CanAcquire(value) == value > 0

\* variant: the permit is given back only when the attempt returned a result
ReleaseOnSuccessOnly(value, outcome) == IF outcome.kind = "ok" THEN value + 1 ELSE value

\* variant: the permit is kept through the backoff of a retried attempt
ReleaseUnlessRetried(value, outcome) ==
    IF outcome.kind = "exc" /\ outcome.type \in {"TimeoutError", "RateLimitError"}
    THEN value ELSE value + 1

\* leaving `async with self.semaphore` with the attempt's outcome, a result or an exception
Release(value, outcome) == value + 1

\* the body of the try block after the call has returned a text:
\* the empty-response check and _parse_response
AttemptOutcome(response_text, expected_count) ==
    IF response_text = <<>> THEN Raised("TranslationError", "empty")
    ELSE LET parsed == ParseResponse(response_text, expected_count)
         IN  IF parsed.ok THEN Returned(parsed.translations)
             ELSE Raised("TranslationError", "validation")

\* the exception _call_gemini_rest raised, as the task sees it
CallFailure(e) == Raised(e, IF e = "TranslationError" THEN "call" ELSE e)

\* variant: every exception is retried
ShouldRetryAnyException(outcome) == outcome.kind = "exc"

\* retry_if_exception_type((asyncio.TimeoutError, RateLimitError))
ShouldRetry(outcome) == outcome.kind = "exc" /\ outcome.type \in {"TimeoutError", "RateLimitError"}

\* variant: the attempt cap is compared one too late
ShouldStopLate(attempt_number) == attempt_number > MaxAttempts

\* stop_after_attempt(3)
ShouldStop(attempt_number) == attempt_number >= MaxAttempts

\* variant: the attempt cap is looked at before the outcome of the attempt
AfterAttemptStopFirst(outcome, attempt_number) ==
    IF ShouldStop(attempt_number) THEN "Failed"
    ELSE IF ShouldRetry(outcome) THEN "Backoff"
    ELSE IF outcome.kind = "ok" THEN "Success" ELSE "Failed"

RECURSIVE Pow2(_)
Pow2(n) == IF n <= 0 THEN 1 ELSE 2 * Pow2(n - 1)

\* variant: the delay is not raised to the configured minimum
WaitExponentialNoMin(attempt_number) ==
    Min(WaitMultiplier * Pow2(attempt_number - 1), WaitMax)

\* wait_exponential(multiplier=1, min=2, max=10): the delay after the given attempt,
\* multiplier * 2^(attempt_number - 1) kept between min and max
WaitExponential(attempt_number) ==
    Max(WaitMin, Min(WaitMultiplier * Pow2(attempt_number - 1), WaitMax))

\* tenacity's decision after an attempt: the task's next state
AfterAttempt(outcome, attempt_number) ==
    IF ~ShouldRetry(outcome)
    THEN IF outcome.kind = "ok" THEN "Success" ELSE "Failed"
    ELSE IF ShouldStop(attempt_number) THEN "Failed" ELSE "Backoff"

\* what the task passes to gather when it ends: the list, the TranslationError,
\* or tenacity's RetryError wrapping the last retryable exception
TaskResult(outcome) ==
    IF ShouldRetry(outcome) THEN Raised("RetryError", outcome.type) ELSE outcome

\* variant: results are kept in the order the tasks end
StoreResultInCompletionOrder(rs, i, r) ==
    LET k == CHOOSE k \in DOMAIN rs :
                 rs[k].kind = "none" /\ \A j \in 1..(k - 1) : rs[j].kind # "none"
    IN  [rs EXCEPT ![k] = r]

\* asyncio.gather keeps each task's result at the task's position
StoreResult(rs, i, r) == [rs EXCEPT ![i] = r]

\* variant: gather without return_exceptions, which completes at the first exception
GatherReadyOnFirstFailure(st) ==
    \/ \A i \in DOMAIN st : st[i] \in Terminal
    \/ \E i \in DOMAIN st : st[i] = "Failed"

\* asyncio.gather(*tasks, return_exceptions=True) completes when every task has ended
GatherReady(st) == \A i \in DOMAIN st : st[i] \in Terminal

RECURSIVE HandleResultsSkipFailed(_, _, _)
\* variant: a failed chunk is left out and the other lists are returned
HandleResultsSkipFailed(rs, i, translations) ==
    IF i > Len(rs) THEN [kind |-> "return", translations |-> translations, chunk |-> 0, cause |-> NoResult]
    ELSE IF rs[i].kind = "exc"
         THEN HandleResultsSkipFailed(rs, i + 1, translations)
         ELSE HandleResultsSkipFailed(rs, i + 1, Append(translations, rs[i].translations))

RECURSIVE HandleResultsLastFailure(_, _, _)
\* variant: the loop runs from the last result to the first
HandleResultsLastFailure(rs, i, translations) ==
    IF i > Len(rs) THEN [kind |-> "return", translations |-> translations, chunk |-> 0, cause |-> NoResult]
    ELSE LET rest == HandleResultsLastFailure(rs, i + 1, Append(translations, rs[i].translations))
         IN  IF rest.kind = "raise" THEN rest
             ELSE IF rs[i].kind = "exc"
                  THEN [kind |-> "raise", translations |-> <<>>, chunk |-> i, cause |-> rs[i]]
                  ELSE rest

RECURSIVE HandleResults(_, _, _)
\* the loop over enumerate(results): raise at the first exception, else append
HandleResults(rs, i, translations) ==
    IF i > Len(rs) THEN [kind |-> "return", translations |-> translations, chunk |-> 0, cause |-> NoResult]
    ELSE IF rs[i].kind = "exc"
         THEN [kind |-> "raise", translations |-> <<>>, chunk |-> i, cause |-> rs[i]]
         ELSE HandleResults(rs, i + 1, Append(translations, rs[i].translations))

NoReturn == [kind |-> "none", translations |-> <<>>, chunk |-> 0, cause |-> NoResult]

(***************************************************************************)
(* main.py: process_translation after the chunks are translated            *)
(***************************************************************************)
NoError == [code |-> "none", status_code |-> 0]
ServiceError(code, status_code) == [code |-> code, status_code |-> status_code]

\* the exception translate_subtitles lets out: always the TranslationError of the result
\* loop, whose message quotes the failed chunk's exception
RaisedByTranslate(r) ==
    [type |-> "TranslationError",
     mentions |-> IF r.cause.cause = "TimeoutError" THEN {"timeout"} ELSE {}]

\* the except clauses around translate_subtitles
ServiceErrorFor(exc) ==
    IF exc.type = "TranslationError" THEN ServiceError("TRANSLATION_FAILED", 500)
    ELSE IF "rate limit" \in exc.mentions \/ "429" \in exc.mentions
         THEN ServiceError("RATE_LIMIT_EXCEEDED", 429)
    ELSE IF "timeout" \in exc.mentions THEN ServiceError("TIMEOUT", 504)
    ELSE ServiceError("TRANSLATION_FAILED", 500)

\* variant: the translated entry keeps the source text
TranslatedEntryKeepsText(entry, text) ==
    [number |-> entry.number, timestamp |-> entry.timestamp, text |-> entry.text]

\* SRTEntry(number=entry.number, timestamp=entry.timestamp, text=translations[j])
TranslatedEntry(entry, text) ==
    [number |-> entry.number, timestamp |-> entry.timestamp, text |-> text]

\* variant: an entry without a translation is kept with its source text
ReassembleChunkKeepAll(chunk, translations) ==
    [j \in 1..Len(chunk.entries) |->
        IF j <= Len(translations) THEN TranslatedEntry(chunk.entries[j], translations[j])
        ELSE chunk.entries[j]]

\* the inner loop: entry j gets translation j `if j < len(translations)`
ReassembleChunk(chunk, translations) ==
    [j \in 1..Min(Len(chunk.entries), Len(translations)) |->
        TranslatedEntry(chunk.entries[j], translations[j])]

RECURSIVE Reassemble(_, _, _)
\* the outer loop over enumerate(chunks), from chunk i on
Reassemble(cs, translated_chunks, i) ==
    IF i > Len(cs) THEN <<>>
    ELSE ReassembleChunk(cs[i], translated_chunks[i]) \o Reassemble(cs, translated_chunks, i + 1)

(***************************************************************************)
(* Actions                                                                 *)
(***************************************************************************)
\* chunker.create_chunks(entries, chunk_size) as process_translation calls it
CreateChunksStep ==
    /\ stage = "parsed"
    /\ IF IsEmptyInput(entries)
       THEN /\ stage' = "error"
            /\ chunks' = <<>>
            /\ service_error' = ServiceError("CHUNKING_FAILED", 500)
       ELSE /\ stage' = "chunked"
            /\ chunks' = CreateChunks(entries, chunk_size, context_size)
            /\ UNCHANGED service_error
    /\ UNCHANGED <<entries, chunk_size, context_size, max_concurrent,
                   semaphore, state, attempt_count, reply, calls, results, out_of_order, faults, ret>>
    /\ UNCHANGED <<delay, translated_entries, parserVars, instanceVars>>

\* translate_subtitles: a new GeminiTranslator, then translate_chunks_async creates
\* one task per chunk and awaits them with gather
StartTranslation ==
    /\ stage = "chunked"
    /\ stage' = "translating"
    /\ semaphore' = max_concurrent
    /\ state' = [i \in Tasks |-> "Pending"]
    /\ attempt_count' = [i \in Tasks |-> 1]
    /\ reply' = [i \in Tasks |-> NoReply]
    /\ calls' = [i \in Tasks |-> 0]
    /\ results' = [i \in Tasks |-> NoResult]
    /\ out_of_order' = FALSE
    /\ faults' = 0
    /\ ret' = NoReturn
    /\ delay' = [i \in Tasks |-> 0]
    /\ UNCHANGED <<entries, chunk_size, context_size, max_concurrent, chunks>>
    /\ UNCHANGED <<jobVars, parserVars, instanceVars>>

\* variant: a task that has ended asks for a permit again
AcquireAfterEnd(i) ==
    /\ stage = "translating"
    /\ state[i] \in {"Pending", "Success", "Failed"}
    /\ CanAcquire(semaphore)
    /\ semaphore' = semaphore - 1
    /\ state' = [state EXCEPT ![i] = "Prompt"]
    /\ UNCHANGED <<entries, chunk_size, context_size, max_concurrent, stage, chunks,
                   attempt_count, reply, calls, results, out_of_order, faults, ret>>
    /\ UNCHANGED <<delay, jobVars, parserVars, instanceVars>>

\* `async with self.semaphore`: the task takes a permit
Acquire(i) ==
    /\ stage = "translating"
    /\ state[i] = "Pending"
    /\ CanAcquire(semaphore)
    /\ semaphore' = semaphore - 1
    /\ state' = [state EXCEPT ![i] = "Prompt"]
    /\ UNCHANGED <<entries, chunk_size, context_size, max_concurrent, stage, chunks,
                   attempt_count, reply, calls, results, out_of_order, faults, ret>>
    /\ UNCHANGED <<delay, jobVars, parserVars, instanceVars>>

\* the prompt is built and the call handed to the executor
IssueCall(i) ==
    /\ stage = "translating"
    /\ state[i] = "Prompt"
    /\ state' = [state EXCEPT ![i] = "InFlight"]
    /\ calls' = [calls EXCEPT ![i] = @ + 1]
    /\ UNCHANGED <<entries, chunk_size, context_size, max_concurrent, stage, chunks,
                   semaphore, attempt_count, reply, results, out_of_order, faults, ret>>
    /\ UNCHANGED <<delay, jobVars, parserVars, instanceVars>>

\* the end of an attempt with the given outcome: the permit is released on the way
\* out of `async with`, and the retry decorator ends the task or schedules a retry
EndAttempt(i, outcome) ==
    /\ semaphore' = Release(semaphore, outcome)
    /\ state' = [state EXCEPT ![i] = AfterAttempt(outcome, attempt_count[i])]
    /\ results' = IF AfterAttempt(outcome, attempt_count[i]) \in Terminal
                  THEN StoreResult(results, i, TaskResult(outcome))
                  ELSE results
    /\ out_of_order' = (out_of_order \/
                           (/\ AfterAttempt(outcome, attempt_count[i]) \in Terminal
                            /\ \E j \in 1..(i - 1) : state[j] \notin Terminal))
    /\ reply' = [reply EXCEPT ![i] = IF AfterAttempt(outcome, attempt_count[i]) = "Backoff"
                                     THEN RaisedReply(outcome.type)
                                     ELSE NoReply]
    /\ delay' = [delay EXCEPT ![i] = IF AfterAttempt(outcome, attempt_count[i]) = "Backoff"
                                     THEN WaitExponential(attempt_count[i])
                                     ELSE 0]
    /\ UNCHANGED <<entries, chunk_size, context_size, max_concurrent, stage, chunks,
                   attempt_count, calls, ret>>
    /\ UNCHANGED <<jobVars, parserVars, instanceVars>>

\* the engine fails a call only while the job's fault budget lasts
MayFail == faults < MaxFaults

\* _call_gemini_rest returns the text of the engine's reply
CallReturns(i) ==
    /\ stage = "translating"
    /\ state[i] = "InFlight"
    /\ \E t \in EngineTexts(CreatePrompt(chunks[i])) :
          LET bad == t \in IncompleteTexts(CreatePrompt(chunks[i]))
          IN  /\ bad => MayFail
              /\ reply' = [reply EXCEPT ![i] = TextReply(t)]
              /\ faults' = IF bad THEN faults + 1 ELSE faults
    /\ state' = [state EXCEPT ![i] = "Parse"]
    /\ UNCHANGED <<entries, chunk_size, context_size, max_concurrent, stage, chunks,
                   semaphore, attempt_count, calls, results, out_of_order, ret>>
    /\ UNCHANGED <<delay, jobVars, parserVars, instanceVars>>

\* _call_gemini_rest raises: the exception passes through the handlers of the task
CallRaises(i) ==
    /\ stage = "translating"
    /\ state[i] = "InFlight"
    /\ MayFail
    /\ faults' = faults + 1
    /\ \E e \in CallExceptions : EndAttempt(i, CallFailure(e))

\* the reply is checked and parsed, and the attempt ends
FinishAttempt(i) ==
    /\ stage = "translating"
    /\ state[i] = "Parse"
    /\ EndAttempt(i, AttemptOutcome(reply[i].text, Len(chunks[i].entries)))
    /\ UNCHANGED faults

\* the backoff delay of wait_exponential has elapsed: the next attempt begins
BackoffElapsed(i) ==
    /\ stage = "translating"
    /\ state[i] = "Backoff"
    /\ state' = [state EXCEPT ![i] = "Pending"]
    /\ attempt_count' = [attempt_count EXCEPT ![i] = @ + 1]
    /\ reply' = [reply EXCEPT ![i] = NoReply]
    /\ delay' = [delay EXCEPT ![i] = 0]
    /\ UNCHANGED <<entries, chunk_size, context_size, max_concurrent, stage, chunks,
                   semaphore, calls, results, out_of_order, faults, ret>>
    /\ UNCHANGED <<jobVars, parserVars, instanceVars>>

\* gather has completed: translate_chunks_async returns the lists or raises
GatherDone ==
    /\ stage = "translating"
    /\ GatherReady(state)
    /\ ret' = HandleResults(results, 1, <<>>)
    /\ stage' = "translated"
    /\ UNCHANGED <<entries, chunk_size, context_size, max_concurrent, chunks,
                   semaphore, state, attempt_count, reply, calls, results, out_of_order, faults>>
    /\ UNCHANGED <<delay, jobVars, parserVars, instanceVars>>

\* process_translation after translate_subtitles: the exception is turned into a
\* TranslationServiceError, or the entries are reassembled and formatted
\* (format_output raises on an empty list)
FinishJob ==
    /\ stage = "translated"
    /\ IF ret.kind = "raise"
       THEN /\ stage' = "error"
            /\ service_error' = ServiceErrorFor(RaisedByTranslate(ret))
            /\ UNCHANGED translated_entries
       ELSE /\ translated_entries' = Reassemble(chunks, ret.translations, 1)
            /\ IF Reassemble(chunks, ret.translations, 1) = <<>>
               THEN /\ stage' = "error"
                    /\ service_error' = ServiceError("FORMAT_FAILED", 500)
               ELSE /\ stage' = "done"
                    /\ UNCHANGED service_error
    /\ UNCHANGED <<entries, chunk_size, context_size, max_concurrent, chunks,
                   semaphore, state, attempt_count, reply, calls, results, out_of_order,
                   faults, ret, delay, parserVars, instanceVars>>

\* the lines a reply text is made of: numbered with "." or ")", padded with blanks,
\* a second text for number 1, a line without number, numbers out of every range,
\* a number without text, a blank line
ReplyLineChoices ==
    { <<"1", ".", " ", "a">>,
      <<"2", ")", " ", "b">>,
      <<" ", "3", ".", " ", " ", "c", " ">>,
      <<"1", ".", "d">>,
      <<"n", "b">>,
      <<"0", ".", " ", "z">>,
      <<"9", "9", ".", " ", "y">>,
      <<"2", ".">>,
      <<" ">> }

\* the reply texts of at most n lines
RECURSIVE ReplyLineSeqs(_)
ReplyLineSeqs(n) ==
    IF n = 0 THEN {<<>>}
    ELSE ReplyLineSeqs(n - 1)
         \cup {Append(ls, l) : ls \in {x \in ReplyLineSeqs(n - 1) : Len(x) = n - 1},
                               l \in ReplyLineChoices}

\* one call of _parse_response(response_text, expected_count)
ParseResponseStep ==
    /\ parse_result.kind = "none"
    /\ parse_result' = LET r == ParseResponse(arg_response_text, arg_expected_count)
                       IN  [kind |-> IF r.ok THEN "return" ELSE "raise",
                            translations |-> r.translations,
                            missing |-> r.missing]
    /\ UNCHANGED <<entries, chunk_size, context_size, max_concurrent, stage, chunks,
                   semaphore, state, attempt_count, reply, calls, results, out_of_order,
                   faults, ret, delay, jobVars, arg_response_text, arg_expected_count,
                   instanceVars>>

(***************************************************************************)
(* Concurrent jobs: one GeminiTranslator instance per call of              *)
(* translate_subtitles, each with the semaphore its constructor creates    *)
(***************************************************************************)
Jobs == 1..MaxConcurrentJobs

\* the variables of the single job
singleJobVars == <<entries, chunk_size, context_size, max_concurrent, stage, chunks,
                   semaphore, state, attempt_count, reply, calls, results, out_of_order,
                   faults, ret, delay, jobVars, parserVars>>

\* variant: one semaphore object for every instance
SemaphoreOfShared(j) == 1

\* self.semaphore of the instance of job j: the object its own __init__ created
SemaphoreOf(j) == j

InstancesIdle ==
    /\ semaphores = [p \in Jobs |-> 0]
    /\ instance_tasks = [j \in Jobs |-> <<>>]

\* translate_subtitles of job j: a new GeminiTranslator, whose __init__ creates
\* asyncio.Semaphore(max_concurrent), and one task per chunk
TranslateSubtitles(j) ==
    /\ instance_tasks[j] = <<>>
    /\ \E n \in 1..MaxInstanceChunks :
           instance_tasks' = [instance_tasks EXCEPT ![j] = [i \in 1..n |-> "Pending"]]
    /\ semaphores' = [semaphores EXCEPT ![SemaphoreOf(j)] = max_concurrent]
    /\ UNCHANGED singleJobVars

\* task i of job j enters `async with self.semaphore` and its call is in flight
InstanceAcquire(j, i) ==
    /\ instance_tasks[j][i] = "Pending"
    /\ CanAcquire(semaphores[SemaphoreOf(j)])
    /\ semaphores' = [semaphores EXCEPT ![SemaphoreOf(j)] = @ - 1]
    /\ instance_tasks' = [instance_tasks EXCEPT ![j][i] = "InFlight"]
    /\ UNCHANGED singleJobVars

\* the attempt of task i of job j ends and leaves `async with self.semaphore`
InstanceRelease(j, i) ==
    /\ instance_tasks[j][i] = "InFlight"
    /\ semaphores' = [semaphores EXCEPT ![SemaphoreOf(j)] = Release(@, NoResult)]
    /\ instance_tasks' = [instance_tasks EXCEPT ![j][i] = "Success"]
    /\ UNCHANGED singleJobVars

(***************************************************************************)
(* Specifications                                                          *)
(***************************************************************************)
NoParse == [kind |-> "none", translations |-> <<>>, missing |-> <<>>]

Idle ==
    /\ stage = "parsed"
    /\ chunks = <<>>
    /\ semaphore = 0
    /\ state = <<>>
    /\ attempt_count = <<>>
    /\ reply = <<>>
    /\ calls = <<>>
    /\ results = <<>>
    /\ out_of_order = FALSE
    /\ faults = 0
    /\ ret = NoReturn
    /\ delay = <<>>
    /\ translated_entries = <<>>
    /\ service_error = NoError

ParserIdle ==
    /\ arg_response_text = <<>>
    /\ arg_expected_count = 0
    /\ parse_result = NoParse

\* a translation job: process_translation after parsing, with the chunker's defaults
Init ==
    /\ \E n \in 0..MaxJobEntries : entries = MakeEntries(n)
    /\ chunk_size \in 1..MaxJobChunkSize
    /\ context_size = DefaultContextSize
    /\ max_concurrent \in 1..MaxPermits
    /\ Idle
    /\ ParserIdle
    /\ InstancesIdle

Next ==
    \/ CreateChunksStep
    \/ StartTranslation
    \/ \E i \in Tasks : Acquire(i)
    \/ \E i \in Tasks : IssueCall(i)
    \/ \E i \in Tasks : CallReturns(i)
    \/ \E i \in Tasks : CallRaises(i)
    \/ \E i \in Tasks : FinishAttempt(i)
    \/ \E i \in Tasks : BackoffElapsed(i)
    \/ GatherDone
    \/ FinishJob

Spec == Init /\ [][Next]_vars

\* what the check and the parsing of a reply can end with, whatever the reply
AttemptOutcomes(chunk) ==
    { Returned([j \in 1..Len(chunk.entries) |-> EngineTranslate(chunk.entries[j].text)]),
      Raised("TranslationError", "empty"),
      Raised("TranslationError", "validation") }

\* a task that is checking and parsing a reply ends its attempt
AttemptEnds(i) ==
    /\ stage = "translating"
    /\ state[i] = "Parse"
    /\ \E outcome \in AttemptOutcomes(chunks[i]) : EndAttempt(i, outcome)
    /\ UNCHANGED faults

\* a step of the job or of one of its tasks
Advance ==
    \/ CreateChunksStep
    \/ StartTranslation
    \/ \E i \in Tasks : Acquire(i)
    \/ \E i \in Tasks : IssueCall(i)
    \/ \E i \in Tasks : CallRaises(i)
    \/ \E i \in Tasks : CallReturns(i)
    \/ \E i \in Tasks : AttemptEnds(i)
    \/ \E i \in Tasks : BackoffElapsed(i)
    \/ GatherDone
    \/ FinishJob

\* the event loop runs a task that can run, a remote call that is in flight ends, a
\* backoff delay that is running elapses: the job never stops while a step is possible
Fairness == WF_vars(Advance)

\* jobs of one entry per chunk
InitFair ==
    /\ \E n \in 1..MaxFairChunks : entries = MakeEntries(n)
    /\ chunk_size = 1
    /\ context_size = DefaultContextSize
    /\ max_concurrent \in 1..MaxPermits
    /\ Idle
    /\ ParserIdle
    /\ InstancesIdle

\* the translation job under fair scheduling
FairSpec == InitFair /\ [][Next]_vars /\ Fairness

\* the chunker alone: SubtitleChunker(chunk_size, context_size).create_chunks(entries)
InitChunker ==
    /\ \E n \in 0..MaxEntries : entries = MakeEntries(n)
    /\ chunk_size \in 1..MaxChunkSize
    /\ context_size \in 0..MaxContextSize
    /\ max_concurrent = 1
    /\ Idle
    /\ ParserIdle
    /\ InstancesIdle

NextChunker == CreateChunksStep

SpecChunker == InitChunker /\ [][NextChunker]_vars

\* the lists the reassembly loop may be given for one chunk: the chunk's translations,
\* any prefix of them, or one string more
TranslationLists(chunk) ==
    LET full == [j \in 1..Len(chunk.entries) |-> EngineTranslate(chunk.entries[j].text)]
    IN  {SubSeq(full, 1, l) : l \in 0..Len(full)} \cup {Append(full, <<"x">>)}

RECURSIVE TranslatedChunks(_)
\* one list per chunk, in chunk order
TranslatedChunks(cs) ==
    IF cs = <<>> THEN {<<>>}
    ELSE {<<h>> \o t : h \in TranslationLists(Head(cs)), t \in TranslatedChunks(Tail(cs))}

\* the reassembly and formatting of process_translation alone, on chunks of create_chunks
\* and one list of strings per chunk
InitReassembler ==
    /\ \E n \in 1..MaxEntries : entries = MakeEntries(n)
    /\ chunk_size \in 1..MaxChunkSize
    /\ context_size = DefaultContextSize
    /\ max_concurrent = 1
    /\ stage = "translated"
    /\ chunks = CreateChunks(entries, chunk_size, context_size)
    /\ \E ts \in TranslatedChunks(chunks) :
           ret = [kind |-> "return", translations |-> ts, chunk |-> 0, cause |-> NoResult]
    /\ semaphore = 0
    /\ state = <<>>
    /\ attempt_count = <<>>
    /\ reply = <<>>
    /\ calls = <<>>
    /\ results = <<>>
    /\ out_of_order = FALSE
    /\ faults = 0
    /\ delay = <<>>
    /\ translated_entries = <<>>
    /\ service_error = NoError
    /\ ParserIdle
    /\ InstancesIdle

NextReassembler == FinishJob

SpecReassembler == InitReassembler /\ [][NextReassembler]_vars

\* jobs that run at the same time in one process, each through translate_subtitles
InitInstances ==
    /\ entries = <<>>
    /\ chunk_size = 1
    /\ context_size = DefaultContextSize
    /\ max_concurrent \in 1..MaxPermits
    /\ Idle
    /\ ParserIdle
    /\ InstancesIdle

NextInstances ==
    \/ \E j \in Jobs : TranslateSubtitles(j)
    \/ \E j \in Jobs : \E i \in DOMAIN instance_tasks[j] : InstanceAcquire(j, i)
    \/ \E j \in Jobs : \E i \in DOMAIN instance_tasks[j] : InstanceRelease(j, i)

SpecInstances == InitInstances /\ [][NextInstances]_vars

\* _parse_response alone, on every reply text of the bounds
InitParser ==
    /\ entries = <<>>
    /\ chunk_size = 1
    /\ context_size = DefaultContextSize
    /\ max_concurrent = 1
    /\ Idle
    /\ \E ls \in ReplyLineSeqs(MaxReplyLines) : arg_response_text = JoinLines(ls)
    /\ arg_expected_count \in (1..MaxSmallExpectedCount) \cup {MaxExpectedCount}
    /\ parse_result = NoParse
    /\ InstancesIdle

NextParser == ParseResponseStep

SpecParser == InitParser /\ [][NextParser]_vars

(***************************************************************************)
(* Properties                                                              *)
(***************************************************************************)
InFlightTasks == {i \in DOMAIN state : state[i] = "InFlight"}

\* the tasks inside an attempt: between taking the permit and the end of the attempt
AttemptingTasks == {i \in DOMAIN state : HoldsPermit(state[i])}

Retryable == {"RateLimitError", "TimeoutError"}

\* the translations the engine gives for the entries of a chunk, in the chunk's order
ExpectedTranslations(chunk) ==
    [j \in 1..Len(chunk.entries) |-> EngineTranslate(chunk.entries[j].text)]

RECURSIVE ConcatEntries(_)
\* the entries of the chunks, concatenated in chunk order
ConcatEntries(cs) == IF cs = <<>> THEN <<>> ELSE Head(cs).entries \o ConcatEntries(Tail(cs))

\* C1: at every moment the number of chunk tasks with a remote call in flight, first
\* attempts and retries together, is at most max_concurrent.
C1_InFlightAtMostMaxConcurrent == Cardinality(InFlightTasks) <= max_concurrent

\* C1 witness: two permits, both held by calls in flight, one of them a retry, while
\* another chunk waits for a permit.
C1_Witness ==
    /\ stage = "translating"
    /\ max_concurrent = 2
    /\ Cardinality(InFlightTasks) = max_concurrent
    /\ \E i \in InFlightTasks : attempt_count[i] >= 2
    /\ \E i \in DOMAIN state : state[i] = "Pending"

\* C2: translate_chunks_async is all-or-nothing: when some chunk ended in Failed the
\* call raises and returns no translation list at all, and when it returns normally
\* every chunk ended in Success.
C2_AllOrNothing ==
    ret.kind # "none" =>
        /\ (\E i \in DOMAIN state : state[i] = "Failed") =>
               (ret.kind = "raise" /\ ret.translations = <<>>)
        /\ ret.kind = "return" => \A i \in DOMAIN state : state[i] = "Success"

\* C2 witness: the call has raised although one chunk succeeded.
C2_Witness ==
    /\ ret.kind = "raise"
    /\ \E i \in DOMAIN state : state[i] = "Success" /\ results[i].kind = "ok"
    /\ \E i \in DOMAIN state : state[i] = "Failed"

\* C3: the outcome of translate_chunks_async is reported only when every chunk task is
\* terminal and has its own result; a chunk that failed by exhaustion made all its
\* attempts, whatever happened to the other chunks.
C3_ReportsAfterAllTerminal ==
    ret.kind # "none" =>
        \A i \in DOMAIN state :
            /\ state[i] \in Terminal
            /\ results[i].kind # "none"
            /\ results[i].type = "RetryError" => calls[i] = MaxAttempts

\* C3 witness: of two chunks the second failed first, the first went on, was retried
\* and succeeded, and only then the call raised.
C3_Witness ==
    /\ ret.kind = "raise"
    /\ Len(chunks) = 2
    /\ out_of_order
    /\ state[2] = "Failed"
    /\ state[1] = "Success"
    /\ calls[1] >= 2

\* C4: when translate_chunks_async returns, it returns one list per chunk and the list
\* at position i holds the translations of the entries of chunk i, whatever the order
\* in which the tasks ended.
C4_ResultsInChunkOrder ==
    ret.kind = "return" =>
        /\ Len(ret.translations) = Len(chunks)
        /\ \A i \in 1..Len(chunks) : ret.translations[i] = ExpectedTranslations(chunks[i])

\* C4 witness: the call returned after a chunk had ended before a chunk of a lower
\* position, and some chunk has more than one entry.
C4_Witness ==
    /\ ret.kind = "return"
    /\ out_of_order
    /\ \E i \in 1..Len(chunks) : Len(chunks[i].entries) >= 2

\* C5: no chunk makes more than 3 remote calls; after a third retryable failure no
\* further attempt is scheduled, the chunk is Failed, and the call raises.
C5_AtMostThreeAttempts ==
    \A i \in DOMAIN state :
        /\ calls[i] <= 3
        /\ attempt_count[i] <= 3
        /\ state[i] = "Backoff" => calls[i] < 3
        /\ results[i].type = "RetryError" =>
               /\ state[i] = "Failed"
               /\ calls[i] = 3
               /\ ret.kind # "none" => ret.kind = "raise"

\* C5 witness: a chunk was Failed by its third retryable failure and the call raised.
C5_Witness ==
    /\ ret.kind = "raise"
    /\ \E i \in DOMAIN state :
           /\ state[i] = "Failed"
           /\ calls[i] = 3
           /\ results[i].type = "RetryError"
           /\ results[i].cause \in Retryable

\* C6: a rate-limit or timeout failure of an attempt before the third is followed by a
\* re-attempt (the task enters the backoff and then asks for a permit again), and the
\* end of an attempt whose reply failed validation is the end of the task, in Failed.
C6_RetryOnlyTransient ==
    [][\A i \in DOMAIN state :
          /\ (state[i] = "Parse" /\ state'[i] # "Parse"
                /\ reply[i].text \in IncompleteTexts(CreatePrompt(chunks[i])))
             => (state'[i] = "Failed" /\ results'[i].type = "TranslationError")
          /\ (state[i] = "InFlight" /\ state'[i] = "Failed" /\ results'[i].cause \in Retryable)
             => attempt_count[i] >= 3
          /\ (state[i] = "InFlight" /\ state'[i] = "Backoff")
             => (reply'[i].type \in Retryable /\ attempt_count[i] < 3)
          /\ (state[i] = "Backoff" /\ state'[i] # "Backoff")
             => (state'[i] = "Pending" /\ attempt_count'[i] = attempt_count[i] + 1)
      ]_vars

\* C6 witness: a chunk was retried after a retryable failure, and its second attempt
\* failed validation and was the last.
C6_Witness ==
    \E i \in DOMAIN state :
        /\ state[i] = "Failed"
        /\ results[i].cause = "validation"
        /\ calls[i] = 2

\* C7: an attempt that gets a complete reply ends the chunk in Success with the
\* chunk's translations, after as many remote calls as attempts (k retryable failures
\* and the successful one); when every chunk succeeded the call returns them all.
C7_SucceedsAfterRetries ==
    /\ [][\A i \in DOMAIN state :
            (state[i] = "Parse" /\ state'[i] # "Parse"
               /\ reply[i].text \in CompleteTexts(CreatePrompt(chunks[i])))
            => /\ state'[i] = "Success"
               /\ calls'[i] = attempt_count[i]
               /\ results'[i] = Returned(ExpectedTranslations(chunks[i]))
        ]_vars
    /\ [](\A i \in DOMAIN state :
            /\ state[i] \in {"InFlight", "Parse", "Success"} => calls[i] = attempt_count[i]
            /\ (ret.kind # "none" /\ \A j \in DOMAIN state : state[j] = "Success")
               => (ret.kind = "return" /\ ret.translations[i] = results[i].translations))

\* C7 witness: the call returned, and one chunk succeeded at its third attempt, another
\* at its second.
C7_Witness ==
    /\ ret.kind = "return"
    /\ \E i \in DOMAIN state : state[i] = "Success" /\ calls[i] = 3
    /\ \E i \in DOMAIN state : state[i] = "Success" /\ calls[i] = 2

\* C8: a permit is out of the pool only for a task inside an attempt; an attempt that
\* ended, in success, in a retryable failure or in a permanent failure, holds none, and
\* once every task is terminal the pool is back at max_concurrent.
C8_PermitReleasedAfterAttempt ==
    stage \in {"translating", "translated"} =>
        /\ semaphore >= 0
        /\ max_concurrent - semaphore = Cardinality(AttemptingTasks)
        /\ (\A i \in DOMAIN state : state[i] \in Terminal) => semaphore = max_concurrent

\* C8 witness: every task is terminal, one after a retryable failure and a success,
\* one after a permanent failure, and the pool is full.
C8_Witness ==
    /\ stage = "translated"
    /\ semaphore = max_concurrent
    /\ \E i \in DOMAIN state : state[i] = "Success" /\ calls[i] >= 2
    /\ \E i \in DOMAIN state : state[i] = "Failed" /\ results[i].type = "TranslationError"

\* C9 as stated: permits are out of the pool only for remote calls in flight, so the
\* number of permits taken equals the number of calls in flight.
C9_PermitOnlyWhileInFlight ==
    stage = "translating" => max_concurrent - semaphore = Cardinality(InFlightTasks)

\* C9 amended: a task takes its permit before it builds the prompt and keeps it until
\* the reply is parsed, so prompt construction and parsing are done holding a permit:
\* tasks building a prompt, calling and parsing together never exceed max_concurrent,
\* and while calls in flight hold every permit no task builds a prompt or parses.
C9_PermitHeldAroundCall ==
    stage = "translating" =>
        /\ \A i \in DOMAIN state : state[i] \in {"Prompt", "Parse"} => semaphore < max_concurrent
        /\ Cardinality({i \in DOMAIN state : state[i] \in {"Prompt", "InFlight", "Parse"}})
               <= max_concurrent
        /\ Cardinality(InFlightTasks) = max_concurrent =>
               \A i \in DOMAIN state : state[i] \notin {"Prompt", "Parse"}

\* C9 witness: the pool is empty, one permit is held by a task parsing its reply and
\* another chunk waits for a permit.
C9_Witness ==
    /\ stage = "translating"
    /\ semaphore = 0
    /\ \E i \in DOMAIN state : state[i] = "Parse"
    /\ \E i \in DOMAIN state : state[i] = "Pending"

\* C10: the entries of the chunks of create_chunks, concatenated in chunk order, are
\* the original sequence: every entry once, in order, no gap and no overlap.
C10_ChunksPartitionEntries ==
    stage = "chunked" => ConcatEntries(chunks) = entries

\* C10 witness: at least three chunks, the last one shorter than chunk_size.
C10_Witness ==
    /\ stage = "chunked"
    /\ Len(chunks) >= 3
    /\ chunk_size >= 2
    /\ Len(chunks[Len(chunks)].entries) < chunk_size

\* the least k with k * cs >= n: the ceiling of n / cs
Ceiling(n, cs) == CHOOSE k \in 0..n : k * cs >= n /\ \A m \in 0..(k - 1) : m * cs < n

\* C11: for N >= 1 entries and chunk_size >= 1, create_chunks returns exactly
\* ceil(N / chunk_size) chunks, every chunk's total is that number, and the indexes
\* are 1, 2, ..., total in order.
C11_ChunkCountIsCeiling ==
    stage = "chunked" =>
        /\ Len(chunks) = Ceiling(Len(entries), chunk_size)
        /\ \A c \in 1..Len(chunks) :
            /\ chunks[c].total = Ceiling(Len(entries), chunk_size)
            /\ chunks[c].index = c

\* C11 witness: a list that chunk_size does not divide, cut into three chunks or more.
C11_Witness ==
    /\ stage = "chunked"
    /\ chunk_size >= 2
    /\ Len(entries) % chunk_size /= 0
    /\ Len(chunks) >= 3
    /\ chunks[Len(chunks)].index = Len(chunks)

\* the last n elements of s, all of s when it is shorter
LastOf(s, n) == Slice(s, Max(0, Len(s) - n), Len(s))

\* C12: for every chunk_size >= 1 and context_size >= 0, context_size > chunk_size
\* included, the previous_context of chunk 1 is empty and that of chunk i > 1 is the
\* last min(context_size, size of chunk i-1) entries of chunk i-1: it never holds an
\* entry of chunk i-2 or earlier.
C12_ContextFromPreviousChunkOnly ==
    stage = "chunked" =>
        /\ chunks[1].previous_context = <<>>
        /\ \A c \in 2..Len(chunks) :
            chunks[c].previous_context =
                LastOf(chunks[c - 1].entries,
                       Min(context_size, Len(chunks[c - 1].entries)))

\* C13: create_chunks on an empty list fails and returns no chunk, and in
\* process_translation that failure ends the job (CHUNKING_FAILED) before the
\* translation starts: no task exists and no remote call is issued.
C13_EmptyInputAbortsBeforeCalls ==
    entries = <<>> =>
        /\ stage \in {"parsed", "error"}
        /\ chunks = <<>>
        /\ state = <<>>
        /\ calls = <<>>
        /\ stage = "error" => service_error = ServiceError("CHUNKING_FAILED", 500)

\* C13 witness: the job of an empty list has failed in the chunking step.
C13_Witness ==
    /\ entries = <<>>
    /\ stage = "error"
    /\ service_error.code = "CHUNKING_FAILED"

\* the cleaned lines of the call's text
ArgLines == CleanLines(arg_response_text)

\* the cleaned line carries the number n of 1..expected_count and a text
Carries(line, n) ==
    LET m == MatchLine(line)
    IN  m.ok /\ m.num = n /\ n \in 1..arg_expected_count

\* the numbers of 1..expected_count that none of the lines carries, ascending
Absent(lines) ==
    SelectSeq([n \in 1..arg_expected_count |-> n],
              LAMBDA n : ~ \E k \in 1..Len(lines) : Carries(lines[k], n))

\* C14: whenever _parse_response succeeds it returns exactly expected_count strings,
\* and the k-th string is the text parsed for ordinal k, whatever the order of the
\* lines in the reply.
C14_ParsedInOrdinalOrder ==
    parse_result.kind = "return" =>
        LET lines == ArgLines
        IN  /\ Len(parse_result.translations) = arg_expected_count
            /\ \A n \in 1..arg_expected_count :
                \E k \in 1..Len(lines) :
                    /\ Carries(lines[k], n)
                    /\ parse_result.translations[n] = MatchLine(lines[k]).text

\* C14 witness: three lines, number 3 first and number 1 last, parsed with success.
C14_Witness ==
    /\ parse_result.kind = "return"
    /\ arg_expected_count = 3
    /\ Len(ArgLines) = 3
    /\ Carries(ArgLines[1], 3)
    /\ Carries(ArgLines[3], 1)

\* C15: _parse_response fails exactly when, malformed and out-of-range lines set
\* aside, some ordinal of 1..expected_count has no parsed text; the error then lists
\* the missing ordinals in ascending order, the first 10 of them only.
C15_FailsIffOrdinalMissing ==
    parse_result.kind # "none" =>
        LET absent == Absent(ArgLines)
        IN  /\ parse_result.kind = "raise" <=> absent # <<>>
            /\ parse_result.kind = "raise" =>
                parse_result.missing = SubSeq(absent, 1, Min(10, Len(absent)))

\* C15 witness: eleven ordinals expected and none found, ten of them listed.
C15_Witness ==
    /\ parse_result.kind = "raise"
    /\ Len(Absent(ArgLines)) > 10
    /\ Len(parse_result.missing) = 10
    /\ ArgLines # <<>>

\* the lines of the call's text as split, before cleaning
RawLines == SplitLines(arg_response_text, <<>>)

\* a line _parse_response discards: no number and text, or a number out of range
Discarded(line) ==
    LET m == MatchLine(Strip(line))
    IN  ~ m.ok \/ m.num < 1 \/ m.num > arg_expected_count

\* C16: lines that are not numbered lines, and numbered lines whose ordinal is outside
\* 1..expected_count, are discarded: the outcome is that of the text without them,
\* wherever they stand.
C16_DiscardedLinesChangeNothing ==
    parse_result.kind # "none" =>
        LET r == ParseResponse(JoinLines(SelectSeq(RawLines, LAMBDA l : ~ Discarded(l))),
                               arg_expected_count)
        IN  /\ parse_result.kind = "return" <=> r.ok
            /\ parse_result.translations = r.translations
            /\ parse_result.missing = r.missing

\* C16 witness: an out-of-range line between the two lines that make the reply
\* complete.
C16_Witness ==
    /\ parse_result.kind = "return"
    /\ arg_expected_count = 2
    /\ Len(RawLines) = 3
    /\ MatchLine(Strip(RawLines[2])).ok
    /\ Discarded(RawLines[2])

\* C17: after a successful translate, reassembly yields exactly N entries in the
\* original order, each with the number and timestamp of the original entry and, as
\* text, translation j of list i, where the entry is the j-th entry of chunk i.
C17_ReassemblyRoundTrip ==
    stage = "done" =>
        /\ Len(translated_entries) = Len(entries)
        /\ \A i \in 1..Len(chunks) : \A j \in 1..Len(chunks[i].entries) :
            LET k == (i - 1) * chunk_size + j
            IN  /\ translated_entries[k].number = entries[k].number
                /\ translated_entries[k].timestamp = entries[k].timestamp
                /\ translated_entries[k].text = ret.translations[i][j]
                /\ entries[k] = chunks[i].entries[j]

\* C17 witness: a job of two chunks, one of them retried, reassembled.
C17_Witness ==
    /\ stage = "done"
    /\ state # <<>>
    /\ Len(chunks) = 2
    /\ Len(chunks[1].entries) = 2
    /\ \E i \in 1..Len(chunks) : calls[i] >= 2
    /\ Len(translated_entries) = 3

\* some chunk has fewer translations than entries
SomeListShort ==
    \E i \in 1..Len(chunks) : Len(ret.translations[i]) < Len(chunks[i].entries)

RECURSIVE TranslatedPrefixes(_, _)
\* per chunk, the entries that have a translation, with that translation as text
TranslatedPrefixes(cs, ts) ==
    IF cs = <<>> THEN <<>>
    ELSE [j \in 1..Min(Len(Head(cs).entries), Len(Head(ts))) |->
             [number |-> Head(cs).entries[j].number,
              timestamp |-> Head(cs).entries[j].timestamp,
              text |-> Head(ts)[j]]]
         \o TranslatedPrefixes(Tail(cs), Tail(ts))

C19_TransientExhaustionCodes ==
    (stage = "error" /\ ret.kind = "raise" /\ ret.cause.type = "RetryError") =>
        /\ ret.cause.cause = "RateLimitError" =>
               service_error = ServiceError("RATE_LIMIT_EXCEEDED", 429)
        /\ ret.cause.cause = "TimeoutError" =>
               service_error = ServiceError("TIMEOUT", 504)

\* C20: no task waits before its first attempt; a backoff delay runs only between a
\* retryable failure of an attempt and the next attempt, never after a success or a
\* permanent failure; every delay is at least 2 and at most 10 seconds.
C20_BackoffOnlyBetweenAttempts ==
    \A i \in DOMAIN delay :
        /\ delay[i] # 0 <=> state[i] = "Backoff"
        /\ state[i] = "Backoff" =>
            /\ 2 <= delay[i] /\ delay[i] <= 10
            /\ reply[i].kind = "exc"
            /\ reply[i].type \in {"RateLimitError", "TimeoutError"}
            /\ calls[i] = attempt_count[i]
            /\ attempt_count[i] < 3
        /\ calls[i] = 0 => delay[i] = 0
        /\ state[i] \in Terminal => delay[i] = 0

\* C20 witness: a task in its second backoff while another task has succeeded at once.
C20_Witness ==
    /\ stage = "translating"
    /\ \E i, j \in Tasks :
        /\ state[i] = "Backoff"
        /\ attempt_count[i] = 2
        /\ delay[i] >= 2
        /\ state[j] = "Success"
        /\ calls[j] = 1
        /\ delay[j] = 0

\* C21: for every number of chunks and every max_concurrent >= 1, when every remote
\* call ends and scheduling is fair, every chunk task reaches Success or Failed and
\* translate_chunks_async returns or raises: no task waits for a permit for ever and
\* the translation never stops half way.
C21_EveryTaskEnds ==
    (stage = "translating") ~>
        (/\ stage = "translated"
         /\ ret.kind \in {"return", "raise"}
         /\ \A i \in Tasks : state[i] \in Terminal)

\* C21 witness: two chunks on one permit, both retried, all ended and
\* translate_chunks_async has returned.
C21_Witness ==
    /\ stage = "translated"
    /\ ret.kind = "return"
    /\ max_concurrent = 1
    /\ Len(chunks) = 2
    /\ calls[1] = 3
    /\ calls[2] = 2
    /\ \A i \in Tasks : state[i] = "Success"

\* C22: every chunk of create_chunks has between 1 and chunk_size entries, and every
\* chunk but the last has exactly chunk_size entries.
C22_ChunkSizes ==
    stage = "chunked" =>
        \A c \in 1..Len(chunks) :
            /\ 1 <= Len(chunks[c].entries)
            /\ Len(chunks[c].entries) <= chunk_size
            /\ c < Len(chunks) => Len(chunks[c].entries) = chunk_size

\* C22 witness: two full chunks of more than one entry and a shorter last chunk.
C22_Witness ==
    /\ stage = "chunked"
    /\ Len(chunks) = 3
    /\ chunk_size = 2
    /\ Len(chunks[1].entries) = 2
    /\ Len(chunks[2].entries) = 2
    /\ Len(chunks[3].entries) = 1

\* C23: Success and Failed are absorbing for a chunk task: a task that has ended
\* issues no further remote call, takes no further permit and never changes state,
\* and a chunk that succeeded was translated by one successful call, the last of one
\* call per attempt.
C23_TerminalStatesAbsorbing ==
    [][\A i \in DOMAIN state :
          /\ state[i] \in {"Success", "Failed"} =>
                /\ state'[i] = state[i]
                /\ calls'[i] = calls[i]
                /\ attempt_count'[i] = attempt_count[i]
                /\ results'[i] = results[i]
          /\ state'[i] = "Success" =>
                /\ results'[i].kind = "ok"
                /\ calls'[i] = attempt_count'[i]
          /\ calls'[i] > calls[i] => (calls'[i] = calls[i] + 1 /\ state[i] = "Prompt")
      ]_vars

\* C23 witness: one task has succeeded at its second call and stays as it is while
\* another task is still calling.
C23_Witness ==
    /\ stage = "translating"
    /\ \E i, j \in DOMAIN state :
        /\ state[i] = "Success"
        /\ calls[i] = 2
        /\ state[j] = "InFlight"
        /\ calls[j] = 2

\* the faults of a remote call that are neither a timeout nor a 429
PermanentFaults ==
    {"http_other", "no_candidates", "invalid_structure", "no_text", "other_exception"}

\* C24: an attempt that ends with an empty reply, a malformed response structure, an
\* HTTP error other than 429 or any exception of the call other than a timeout is a
\* permanent failure: the chunk is Failed after that attempt, with no re-attempt,
\* whatever the number of the attempt.
C24_PermanentFailuresEndTask ==
    [][/\ \A fault \in PermanentFaults : \A n \in 1..MaxAttempts :
            /\ RaisedByCall(fault) = "TranslationError"
            /\ AfterAttempt(CallFailure(RaisedByCall(fault)), n) = "Failed"
       /\ \A i \in DOMAIN state :
            /\ (state[i] = "InFlight" /\ state'[i] \notin {"InFlight", "Parse"}
                    /\ ~ (\/ state'[i] = "Backoff" /\ reply'[i].type \in Retryable
                          \/ state'[i] = "Failed" /\ results'[i].type = "RetryError"))
               => /\ state'[i] = "Failed"
                  /\ results'[i] = Raised("TranslationError", "call")
                  /\ calls'[i] = calls[i]
            /\ (state[i] = "Parse" /\ state'[i] # "Parse" /\ reply[i].text = <<>>)
               => /\ state'[i] = "Failed"
                  /\ results'[i] = Raised("TranslationError", "empty")
                  /\ calls'[i] = calls[i]
      ]_vars

\* C24 witness: one chunk failed for good at its second attempt on an exception of the
\* call, another at its first attempt on an empty reply.
C24_Witness ==
    \E i, j \in DOMAIN state :
        /\ state[i] = "Failed"
        /\ results[i] = Raised("TranslationError", "call")
        /\ calls[i] = 2
        /\ state[j] = "Failed"
        /\ results[j] = Raised("TranslationError", "empty")
        /\ calls[j] = 1

\* C25: the prompt of a chunk numbers the chunk's entries 1..len(chunk.entries) in
\* chunk order, whatever the entries' own numbers, the reply is validated against
\* that same count, and a returned list has as many strings as the chunk has entries.
C25_PromptOrdinalsLocal ==
    \A i \in DOMAIN state :
        LET prompt == CreatePrompt(chunks[i])
            n == Len(chunks[i].entries)
        IN  /\ prompt.count = n
            /\ Len(prompt.lines) = n
            /\ \A j \in 1..n :
                   prompt.lines[j] = Str(j) \o <<".", " ">> \o chunks[i].entries[j].text
            /\ results[i].kind = "ok" => Len(results[i].translations) = n

\* C25 witness: the second chunk, whose entries are numbered 3 and on, has succeeded.
C25_Witness ==
    /\ Len(chunks) >= 2
    /\ state # <<>>
    /\ chunks[2].entries[1].number = Str(3)
    /\ state[2] = "Success"
    /\ Len(results[2].translations) = 1

\* C26: a task holds no permit during its backoff: the permit of the failed attempt
\* goes back to the pool when the backoff starts, the end of the backoff takes none,
\* and the tasks in backoff count for nothing in the pool.
C26_NoPermitDuringBackoff ==
    /\ [][\A i \in DOMAIN state :
            /\ (state[i] # "Backoff" /\ state'[i] = "Backoff") => semaphore' = semaphore + 1
            /\ (state[i] = "Backoff" /\ state'[i] # "Backoff")
               => (state'[i] = "Pending" /\ semaphore' = semaphore)
        ]_vars
    /\ [](stage = "translating" =>
            semaphore + Cardinality({i \in DOMAIN state : state[i] \in {"Prompt", "InFlight", "Parse"}})
                = max_concurrent)

\* C26 witness: one permit, the first chunk in backoff and the second chunk's call in
\* flight.
C26_Witness ==
    /\ stage = "translating"
    /\ max_concurrent = 1
    /\ Len(chunks) >= 2
    /\ state[1] = "Backoff"
    /\ state[2] = "InFlight"
    /\ semaphore = 0

\* C27: when several chunks are Failed, the TranslationError of translate_chunks_async
\* names the failed chunk of lowest position and carries that chunk's error, whatever
\* the order in which the chunks ended.
C27_LowestFailedChunkNamed ==
    ret.kind = "raise" =>
        /\ ret.chunk \in DOMAIN state
        /\ state[ret.chunk] = "Failed"
        /\ \A j \in 1..(ret.chunk - 1) : state[j] = "Success"
        /\ ret.cause = results[ret.chunk]

\* C27 witness: chunks 1 and 2 failed on different errors, chunk 2 before chunk 1, and
\* the error names chunk 1.
C27_Witness ==
    /\ ret.kind = "raise"
    /\ Len(chunks) >= 2
    /\ state[1] = "Failed"
    /\ state[2] = "Failed"
    /\ results[1] # results[2]
    /\ out_of_order
    /\ ret.chunk = 1

\* the position of the last of the lines that carries the number n
LastCarrying(lines, n) ==
    CHOOSE k \in 1..Len(lines) :
        Carries(lines[k], n) /\ \A l \in (k + 1)..Len(lines) : ~ Carries(lines[l], n)

\* C28: when the reply has several well-formed lines with the same in-range ordinal,
\* _parse_response does not fail because of it: a reply that has every ordinal is
\* parsed, and the text returned for an ordinal is that of the last line carrying it.
C28_LastDuplicateWins ==
    parse_result.kind # "none" =>
        LET lines == ArgLines
        IN  (\A n \in 1..arg_expected_count : \E k \in 1..Len(lines) : Carries(lines[k], n))
            => /\ parse_result.kind = "return"
               /\ \A n \in 1..arg_expected_count :
                    parse_result.translations[n] = MatchLine(lines[LastCarrying(lines, n)]).text

\* C28 witness: two lines carry number 1 with different texts and the text of the
\* second is returned.
C28_Witness ==
    /\ parse_result.kind = "return"
    /\ \E k, l \in 1..Len(ArgLines) :
        /\ k < l
        /\ Carries(ArgLines[k], 1)
        /\ Carries(ArgLines[l], 1)
        /\ MatchLine(ArgLines[k]).text # MatchLine(ArgLines[l]).text
        /\ parse_result.translations[1] = MatchLine(ArgLines[l]).text

\* the line is the number n, a "." or a ")", and a remainder that strips to text
IsLineOf(line, n, text) ==
    \E sep \in {".", ")"} :
        LET prefix == Append(Str(n), sep)
        IN  /\ Len(line) > Len(prefix)
            /\ SubSeq(line, 1, Len(prefix)) = prefix
            /\ text = Strip(SubSeq(line, Len(prefix) + 1, Len(line)))

\* C29: the text returned for ordinal k is the remainder of the one reply line that
\* carries ordinal k: lines without a number that follow it are never added to it,
\* so a translation sent over several lines keeps its first line only.
C29_OnlyTheNumberedLineIsKept ==
    parse_result.kind = "return" =>
        LET lines == ArgLines
        IN  \A n \in 1..arg_expected_count :
                /\ \E k \in 1..Len(lines) : IsLineOf(lines[k], n, parse_result.translations[n])
                /\ \A c \in 1..Len(parse_result.translations[n]) :
                       parse_result.translations[n][c] # Newline

\* C29 witness: the line of number 1 is followed by a line without number, and the
\* text returned for 1 is the remainder of the first of the two.
C29_Witness ==
    /\ parse_result.kind = "return"
    /\ arg_expected_count = 1
    /\ Len(ArgLines) = 2
    /\ IsLineOf(ArgLines[1], 1, <<"a">>)
    /\ ArgLines[2] = <<"n", "b">>
    /\ parse_result.translations = << <<"a">> >>

\* the tasks of job j whose call is in flight
InFlightOf(j) == {i \in DOMAIN instance_tasks[j] : instance_tasks[j][i] = "InFlight"}

\* C30: the permit pool belongs to one translator instance and every job has its own
\* instance: max_concurrent bounds the calls in flight of each job separately, the
\* permits a job has left depend on its own calls only, and a task never waits for a
\* permit that another job holds.
C30_PoolPerJob ==
    \A j \in Jobs :
        instance_tasks[j] # <<>> =>
            /\ Cardinality(InFlightOf(j)) <= max_concurrent
            /\ semaphores[j] = max_concurrent - Cardinality(InFlightOf(j))
            /\ \A i \in DOMAIN instance_tasks[j] :
                   (instance_tasks[j][i] = "Pending"
                        /\ Cardinality(InFlightOf(j)) < max_concurrent)
                   => ENABLED InstanceAcquire(j, i)

\* C30 witness: two jobs have max_concurrent calls in flight each, 2 * max_concurrent
\* together.
C30_Witness ==
    /\ max_concurrent = 2
    /\ Cardinality(InFlightOf(1)) = max_concurrent
    /\ Cardinality(InFlightOf(2)) = max_concurrent
    /\ Cardinality(InFlightOf(1)) + Cardinality(InFlightOf(2)) = 2 * max_concurrent

====
